---- MODULE Spec2Model ----
(***************************************************************************)
(* Model of the UYTCAB pipeline: map.py (keyword locator, numeric          *)
(* normalizer, date resolvers, batch mapping and CSV output),              *)
(* orchestrator.py (two-step pipeline) and the exit behaviour of main.py.  *)
(*                                                                         *)
(* Text is a sequence of characters, each character a one-token string.    *)
(* Non-ASCII characters of the source are written as ASCII tokens:         *)
(*   "tri" = the triangle glyph of map.py:143,  "Y" "M" "D" = the year,    *)
(*   month and day markers of map.py:36 and map.py:114,                    *)
(*   "zai","sei" = the two characters of the row keyword (map.py:16),      *)
(*   "tosha","jukyu","yosou" = the column keywords (map.py:17),            *)
(*   "fw1" = the full-width digit one (a Unicode decimal digit).           *)
(* Python's None is the empty tuple and a present value x is <<x>>.        *)
(***************************************************************************)
EXTENDS Integers, Sequences, FiniteSets, TLC

VARIABLES
    value_str, value, num_pc,                      \* clean_numeric_value
    cell_month, cell_day,                          \* the (month, day) a cell text is written from
    cell_text, year, date_str, cell_pc,            \* extract_date_from_cell
    table, header_row_idx, col_idx, casc_pdf,      \* extract_forecast_date_universal
    forecast_date, casc_pc,
    pdf_path, located, found, data, loc_pc,        \* create_mapped_data
    pdf_files, output_csv, file_idx, all_data,     \* process_multiple_pdfs
    csv_file, batch_pc,
    downloads, test_pdf, map_pc,                   \* the downloads folder and map.py's main
    orch_pc, invoked, step_a, returncode,          \* orchestrator.py's main
    exit_status,
    doc_file, pdf_date, doc_pc                     \* extract_date_from_pdf

numVars == <<value_str, value, num_pc>>
cellVars == <<cell_month, cell_day, cell_text, year, date_str, cell_pc>>
cascVars == <<table, header_row_idx, col_idx, casc_pdf, forecast_date, casc_pc>>
locVars == <<pdf_path, located, found, data, loc_pc>>
batchVars == <<pdf_files, output_csv, file_idx, all_data, csv_file, batch_pc>>
orchVars == <<downloads, test_pdf, map_pc, orch_pc, invoked, step_a, returncode, exit_status>>
docVars == <<doc_file, pdf_date, doc_pc>>
vars == <<numVars, cellVars, cascVars, locVars, batchVars, orchVars, docVars>>

None == <<>>
Some(x) == <<x>>

\* F(v), with v evaluated once: a local variable of the source.
Let(v, F(_)) == CHOOSE y \in {F(x) : x \in {v}} : TRUE

\* ------------------------------------------------------------ bounds

MaxLen == 4
MaxMonth == 13
MaxDay == 32
MaxCascadeRows == 9
MaxDateCells == 3
MaxRows == 4
MaxPaddedRows == 3
MaxFiles == 3
MaxDownloads == 1
MaxFragments == 3
MaxWidth == 3

\* ------------------------------------------------------ text helpers

RECURSIVE SeqsUpTo(_, _)
SeqsUpTo(S, n) ==
    IF n = 0 THEN {<<>>}
    ELSE LET shorter == SeqsUpTo(S, n - 1)
         IN shorter \cup {Append(s, c) : s \in {t \in shorter : Len(t) = n - 1}, c \in S}

AsciiDigits == {"0", "1", "2", "3", "4", "5", "6", "7", "8", "9"}

IsDigit_AsciiOnly(c) == c \in AsciiDigits

\* Python's \d on str patterns matches every Unicode decimal digit.
IsDigit(c) == c \in AsciiDigits \cup {"fw1"}

DigitVal(c) ==
    CASE c = "0" -> 0 [] c = "1" -> 1 [] c = "2" -> 2 [] c = "3" -> 3
      [] c = "4" -> 4 [] c = "5" -> 5 [] c = "6" -> 6 [] c = "7" -> 7
      [] c = "8" -> 8 [] c = "9" -> 9 [] c = "fw1" -> 1

IsSpace(c) == c = " "

\* int(s) of a non-empty string of decimal digits.
RECURSIVE int(_)
int(s) ==
    IF s = <<>> THEN 0
    ELSE 10 * int(SubSeq(s, 1, Len(s) - 1)) + DigitVal(s[Len(s)])

RECURSIVE lstrip(_)
lstrip(s) == IF s # <<>> /\ IsSpace(s[1]) THEN lstrip(Tail(s)) ELSE s

RECURSIVE rstrip(_)
rstrip(s) ==
    IF s # <<>> /\ IsSpace(s[Len(s)]) THEN rstrip(SubSeq(s, 1, Len(s) - 1)) ELSE s

strip(s) == rstrip(lstrip(s))

\* s.replace(c, '')
remove_char(s, c) == SelectSeq(s, LAMBDA ch : ch # c)

\* re.sub(r'[^\d]', '', s)
sub_non_digits(s) == SelectSeq(s, IsDigit)

\* `c in s` for a single character c
has_char(s, c) == \E i \in 1..Len(s) : s[i] = c

\* s.startswith(c) for a single character c
startswith(s, c) == s # <<>> /\ s[1] = c

\* Truthiness of an optional text: None and '' are falsy.
truthy(cell) == cell # None /\ cell[1] # <<>>

\* `not str(cell).strip()` of a present cell
is_blank(cell) == strip(cell[1]) = <<>>

\* ------------------------------------------- clean_numeric_value

is_negative_NeverNegative(stripped, raw) == FALSE

\* map.py:143, evaluated on the stripped text of map.py:140
is_negative(stripped, raw) == has_char(stripped, "tri") \/ startswith(stripped, "-")

clean_numeric_value(v) ==
    IF ~truthy(v) THEN None
    ELSE LET stripped == strip(v[1])
             neg == is_negative(stripped, v[1])
             digits == sub_non_digits(remove_char(stripped, "+"))
         IN IF digits = <<>> THEN None
            ELSE LET n == int(digits)
                 IN Some(IF neg /\ n > 0 THEN -n ELSE n)


\* ------------------------------------------------ calendar dates

is_leap(y) == (y % 4 = 0) /\ ((y % 100 # 0) \/ (y % 400 = 0))

days_in_month(y, m) ==
    IF m = 2 /\ is_leap(y) THEN 29
    ELSE <<31, 28, 31, 30, 31, 30, 31, 31, 30, 31, 30, 31>>[m]

\* datetime(y, m, d): the date, or None where the constructor raises ValueError.
datetime(y, m, d) ==
    IF /\ y >= 1 /\ y <= 9999
       /\ m >= 1 /\ m <= 12
       /\ d >= 1 /\ d <= days_in_month(y, m)
    THEN Some([year |-> y, month |-> m, day |-> d])
    ELSE None

DigitChar(n) == <<"0", "1", "2", "3", "4", "5", "6", "7", "8", "9">>[n + 1]

\* str(n) of a natural number
RECURSIVE str_nat(_)
str_nat(n) == IF n < 10 THEN <<DigitChar(n)>> ELSE Append(str_nat(n \div 10), DigitChar(n % 10))

\* str(n) of an integer
str_int(n) == IF n < 0 THEN <<"-">> \o str_nat(-n) ELSE str_nat(n)

RECURSIVE zero_pad(_, _)
zero_pad(s, width) == IF Len(s) >= width THEN s ELSE zero_pad(<<"0">> \o s, width)

\* date_obj.strftime('%Y-%m-%d')
strftime_ymd(dt) ==
    zero_pad(str_nat(dt.year), 4) \o <<"-">> \o zero_pad(str_nat(dt.month), 2)
        \o <<"-">> \o zero_pad(str_nat(dt.day), 2)

\* ------------------------------------------------ regular expressions

\* \d{n} at position i of s
digits_at(s, i, n) == i >= 1 /\ i + n - 1 <= Len(s) /\ \A k \in i..(i + n - 1) : IsDigit(s[k])

char_at(s, i, c) == i >= 1 /\ i <= Len(s) /\ s[i] = c

\* (\d{1,2}) at position i followed by the character `sep`: the number of digits
\* matched (2 is tried first), or 0 when neither matches.
short_number_then(s, i, sep) ==
    IF digits_at(s, i, 2) /\ char_at(s, i + 2, sep) THEN 2
    ELSE IF digits_at(s, i, 1) /\ char_at(s, i + 1, sep) THEN 1
    ELSE 0

\* (\d{1,2})M(\d{1,2})D matched at position i (map.py:114)
month_day_at(s, i) ==
    LET ml == short_number_then(s, i, "M")
        dl == short_number_then(s, i + ml + 1, "D")
    IN ml > 0 /\ dl > 0

month_day_groups_Swapped(s, i) ==
    LET ml == short_number_then(s, i, "M")
        dl == short_number_then(s, i + ml + 1, "D")
    IN [month |-> int(SubSeq(s, i + ml + 1, i + ml + dl)),
        day |-> int(SubSeq(s, i, i + ml - 1))]

\* int(match.group(1)), int(match.group(2)) (map.py:118-119)
month_day_groups(s, i) ==
    LET ml == short_number_then(s, i, "M")
        dl == short_number_then(s, i + ml + 1, "D")
    IN [month |-> int(SubSeq(s, i, i + ml - 1)),
        day |-> int(SubSeq(s, i + ml + 1, i + ml + dl))]

\* ---------------------------------------------- extract_date_from_cell

extract_date_from_cell(text, y) ==
    IF text = <<>> THEN None
    ELSE Let({i \in 1..Len(text) : month_day_at(text, i)}, LAMBDA starts :
         IF starts = {} THEN None
         ELSE Let(month_day_groups(text, CHOOSE k \in starts : \A j \in starts : k <= j),
              LAMBDA g :
              Let(datetime(y, g.month, g.day), LAMBDA date_obj :
              IF date_obj = None THEN None ELSE Some(strftime_ymd(date_obj[1])))))

\* ---------------------------------------------------------- documents

\* A document as pdfplumber presents it: whether it opens, the text of its
\* first page (None when extract_text gives none) and the tables of its
\* first page, each a sequence of rows of optional cell texts.
Document(opens, text, tables) == [opens |-> opens, text |-> text, tables |-> tables]

\* A call either raises or returns a value.
Raised == [raised |-> TRUE]
Return(x) == [raised |-> FALSE, ret |-> x]

\* seq[i] with Python's 0-based index
at(seq, i) == seq[i + 1]

\* ------------------------------------------------ extract_date_from_pdf

\* (\d{4})<sep1>(\d{1,2})<sep2>(\d{1,2})<last> at position i; `last` is None
\* for the dot and slash patterns, which end with the day's digits.
full_date_at(s, i, sep1, sep2, last) ==
    /\ digits_at(s, i, 4)
    /\ char_at(s, i + 4, sep1)
    /\ LET ml == short_number_then(s, i + 5, sep2)
       IN /\ ml > 0
          /\ IF last = None THEN digits_at(s, i + ml + 6, 1)
             ELSE short_number_then(s, i + ml + 6, last[1]) > 0

\* int(match.group(1)), int(match.group(2)), int(match.group(3))
full_date_groups(s, i, sep2, last) ==
    LET ml == short_number_then(s, i + 5, sep2)
        dl == IF last = None THEN (IF digits_at(s, i + ml + 6, 2) THEN 2 ELSE 1)
              ELSE short_number_then(s, i + ml + 6, last[1])
    IN [year |-> int(SubSeq(s, i, i + 3)),
        month |-> int(SubSeq(s, i + 5, i + ml + 4)),
        day |-> int(SubSeq(s, i + ml + 6, i + ml + dl + 5))]

\* re.search of one of the three patterns: None, or the groups of the leftmost match.
search_full_date(s, sep1, sep2, last) ==
    Let({i \in 1..Len(s) : full_date_at(s, i, sep1, sep2, last)}, LAMBDA starts :
    IF starts = {} THEN None
    ELSE Some(full_date_groups(s, CHOOSE k \in starts : \A j \in starts : k <= j,
                               sep2, last)))

\* The three patterns in the order they are tried (map.py:36, 43, 50).
date_patterns ==
    << [sep1 |-> "Y", sep2 |-> "M", last |-> Some("D")],
       [sep1 |-> ".", sep2 |-> ".", last |-> None],
       [sep1 |-> "/", sep2 |-> "/", last |-> None] >>

first_pattern_date_ByPosition(text, k) ==
    LET hits == {h \in (1..Len(text)) \X (1..Len(date_patterns)) :
                    full_date_at(text, h[1], date_patterns[h[2]].sep1,
                                 date_patterns[h[2]].sep2, date_patterns[h[2]].last)}
    IN IF hits = {} THEN Return(None)
       ELSE LET first == CHOOSE h \in hits : \A g \in hits : h[1] <= g[1]
                groups == full_date_groups(text, first[1], date_patterns[first[2]].sep2,
                                           date_patterns[first[2]].last)
                d == datetime(groups.year, groups.month, groups.day)
            IN IF d = None THEN Raised ELSE Return(d)

\* The patterns tried in turn, the first that matches deciding (map.py:35-54).
RECURSIVE first_pattern_date(_, _)
first_pattern_date(text, k) ==
    IF k > Len(date_patterns) THEN Return(None)
    ELSE Let(search_full_date(text, date_patterns[k].sep1, date_patterns[k].sep2,
                              date_patterns[k].last),
         LAMBDA match :
         IF match = None THEN first_pattern_date(text, k + 1)
         ELSE Let(datetime(match[1].year, match[1].month, match[1].day), LAMBDA d :
              IF d = None THEN Raised ELSE Return(d)))

extract_date_from_pdf(pdf) ==
    IF ~pdf.opens THEN Raised                 \* pdfplumber.open raises
    ELSE IF pdf.text = None THEN Raised       \* re.search(pattern, None): TypeError
    ELSE first_pattern_date(pdf.text[1], 1)

\* ------------------------------------- extract_forecast_date_universal

\* The date of the cell at (row_idx, col_idx), None when the row or the cell
\* is missing, empty or holds no valid date (map.py:84-90).
date_at(tbl, row_idx, c, y) ==
    IF row_idx >= 0 /\ row_idx < Len(tbl)
    THEN LET row == at(tbl, row_idx)
         IN IF c < Len(row) /\ truthy(at(row, c))
            THEN extract_date_from_cell(at(row, c)[1], y)
            ELSE None
    ELSE None

RECURSIVE first_date(_, _, _, _)
first_date(tbl, rows, c, y) ==
    IF rows = <<>> THEN None
    ELSE Let(date_at(tbl, rows[1], c, y), LAMBDA d :
         IF d # None THEN d ELSE first_date(tbl, Tail(rows), c, y))

offsets_AboveFirst == <<-1, 1, -2, 2, 3>>

\* map.py:82
offsets == <<1, -1, 2, -2, 3>>

\* range(max(0, h - 5), h) as a sequence (map.py:93)
rows_above(h) ==
    LET lo == IF h - 5 > 0 THEN h - 5 ELSE 0
    IN [k \in 1..(h - lo) |-> lo + k - 1]

\* The rows searched, in order: strategy 1 (map.py:73), strategy 2 (map.py:82-83)
\* and strategy 3 (map.py:93).
search_rows(h) == <<h>> \o [k \in 1..Len(offsets) |-> h + offsets[k]] \o rows_above(h)

extract_forecast_date_universal(tbl, h, c, pdf) ==
    Let(extract_date_from_pdf(pdf), LAMBDA doc_date :
    IF doc_date.raised THEN Raised
    ELSE IF doc_date.ret = None THEN Return(None)
    ELSE Return(first_date(tbl, search_rows(h), c, doc_date.ret[1].year)))

\* ------------------------------------------------------ configuration

\* map.py:16
TARGET_ROW_KEYWORDS == << <<"zai", "sei">> >>

\* map.py:17
TARGET_COLUMN_KEYWORDS == << <<"tosha", "jukyu", "yosou">>, <<"jukyu", "yosou">> >>

\* map.py:185
HeaderScanRows == 40

\* ------------------------------------------ find_fiscal_forecast_value

\* `keyword in str(cell)`
is_substring(kw, s) ==
    \E i \in 1..(Len(s) - Len(kw) + 1) : SubSeq(s, i, i + Len(kw) - 1) = kw

\* `cell and any(keyword in str(cell) for keyword in keywords)`
any_keyword_in(cell, keywords) ==
    truthy(cell) /\ \E k \in 1..Len(keywords) : is_substring(keywords[k], cell[1])

row_has_keyword(row, keywords) ==
    \E c \in 1..Len(row) : any_keyword_in(row[c], keywords)

\* 0, 1, ..., n - 1
range(n) == [k \in 1..n |-> k - 1]

min(a, b) == IF a < b THEN a ELSE b

\* Step 1 (map.py:184-192): the indices of the rows, among the first 40, that
\* hold a column keyword.
header_candidates(tbl) ==
    SelectSeq(range(min(HeaderScanRows, Len(tbl))),
              LAMBDA r : row_has_keyword(at(tbl, r), TARGET_COLUMN_KEYWORDS))

target_row_idx_Last(tbl) ==
    LET rows == {r \in 0..(Len(tbl) - 1) : row_has_keyword(at(tbl, r), TARGET_ROW_KEYWORDS)}
    IN IF rows = {} THEN None ELSE Some(CHOOSE r \in rows : \A q \in rows : q <= r)

\* Step 2 (map.py:195-207): the index of the first row holding a row keyword.
target_row_idx(tbl) ==
    LET rows == {r \in 0..(Len(tbl) - 1) : row_has_keyword(at(tbl, r), TARGET_ROW_KEYWORDS)}
    IN IF rows = {} THEN None ELSE Some(CHOOSE r \in rows : \A q \in rows : r <= q)

\* The columns of a header row that hold a column keyword, left to right (map.py:218-219).
keyword_columns(header_row) ==
    SelectSeq(range(Len(header_row)),
              LAMBDA c : any_keyword_in(at(header_row, c), TARGET_COLUMN_KEYWORDS))

\* map.py:214
header_is_skipped(header_idx, target_idx) == header_idx >= target_idx

candidate_match(t, target_idx, header_idx, c, v, d) ==
    [table_idx |-> t, header_idx |-> header_idx, target_row_idx |-> target_idx,
     col_idx |-> c, value |-> v, date_str |-> d]

try_candidate_NoDateCheck(pdf, t, tbl, target_idx, header_idx, c) ==
    Let(at(tbl, target_idx), LAMBDA target_row :
    IF c >= Len(target_row) THEN Return(None)
    ELSE IF at(target_row, c) = None \/ is_blank(at(target_row, c)) THEN Return(None)
    ELSE Let(clean_numeric_value(at(target_row, c)), LAMBDA v :
         IF v = None THEN Return(None)
         ELSE Let(extract_forecast_date_universal(tbl, header_idx, c, pdf), LAMBDA d :
              IF d.raised THEN Raised
              ELSE Return(Some(candidate_match(t, target_idx, header_idx, c, v[1], d.ret))))))

try_candidate_DocumentDateFallback(pdf, t, tbl, target_idx, header_idx, c) ==
    Let(at(tbl, target_idx), LAMBDA target_row :
    IF c >= Len(target_row) THEN Return(None)
    ELSE IF at(target_row, c) = None \/ is_blank(at(target_row, c)) THEN Return(None)
    ELSE Let(clean_numeric_value(at(target_row, c)), LAMBDA v :
         IF v = None THEN Return(None)
         ELSE Let(extract_forecast_date_universal(tbl, header_idx, c, pdf), LAMBDA d :
              IF d.raised THEN Raised
              ELSE IF d.ret = None /\ extract_date_from_pdf(pdf).ret = None THEN Return(None)
              ELSE Return(Some(candidate_match(t, target_idx, header_idx, c, v[1],
                       IF d.ret = None
                       THEN Some(strftime_ymd(extract_date_from_pdf(pdf).ret[1]))
                       ELSE d.ret))))))

\* The outcome of one (header row, column) candidate (map.py:221-240): Raised,
\* Return(None) to go on with the next candidate, or the match returned.
try_candidate(pdf, t, tbl, target_idx, header_idx, c) ==
    Let(at(tbl, target_idx), LAMBDA target_row :
    IF c >= Len(target_row) THEN Return(None)
    ELSE IF at(target_row, c) = None \/ is_blank(at(target_row, c)) THEN Return(None)
    ELSE Let(clean_numeric_value(at(target_row, c)), LAMBDA v :
         IF v = None THEN Return(None)
         ELSE Let(extract_forecast_date_universal(tbl, header_idx, c, pdf), LAMBDA d :
              IF d.raised THEN Raised
              ELSE IF d.ret = None THEN Return(None)
              ELSE Return(Some(candidate_match(t, target_idx, header_idx, c, v[1], d.ret))))))

try_columns_FirstOnly(pdf, t, tbl, target_idx, header_idx, cols) ==
    IF cols = <<>> THEN Return(None)
    ELSE try_candidate(pdf, t, tbl, target_idx, header_idx, cols[1])

\* The inner loop over the columns of one header row (map.py:218).
RECURSIVE try_columns(_, _, _, _, _, _)
try_columns(pdf, t, tbl, target_idx, header_idx, cols) ==
    IF cols = <<>> THEN Return(None)
    ELSE Let(try_candidate(pdf, t, tbl, target_idx, header_idx, cols[1]), LAMBDA r :
         IF r.raised THEN r
         ELSE IF r.ret # None THEN r
         ELSE try_columns(pdf, t, tbl, target_idx, header_idx, Tail(cols)))

\* The loop over the header candidates (map.py:213).
RECURSIVE try_headers(_, _, _, _, _)
try_headers(pdf, t, tbl, target_idx, headers) ==
    IF headers = <<>> THEN Return(None)
    ELSE IF header_is_skipped(headers[1], target_idx)
         THEN try_headers(pdf, t, tbl, target_idx, Tail(headers))
    ELSE Let(try_columns(pdf, t, tbl, target_idx, headers[1],
                         keyword_columns(at(tbl, headers[1]))),
         LAMBDA r :
         IF r.raised THEN r
         ELSE IF r.ret # None THEN r
         ELSE try_headers(pdf, t, tbl, target_idx, Tail(headers)))

\* One table (map.py:180-240).
search_table(pdf, t, tbl) ==
    IF Len(tbl) < 2 THEN Return(None)
    ELSE Let(target_row_idx(tbl), LAMBDA target :
         IF target = None THEN Return(None)
         ELSE try_headers(pdf, t, tbl, target[1], header_candidates(tbl)))

search_tables_FirstTableOnly(pdf, t) ==
    IF t >= Len(pdf.tables) THEN Return(None) ELSE search_table(pdf, t, at(pdf.tables, t))

\* The loop over the tables of the first page (map.py:179).
RECURSIVE search_tables(_, _)
search_tables(pdf, t) ==
    IF t >= Len(pdf.tables) THEN Return(None)
    ELSE Let(search_table(pdf, t, at(pdf.tables, t)), LAMBDA r :
         IF r.raised THEN r
         ELSE IF r.ret # None THEN r
         ELSE search_tables(pdf, t + 1))

\* The candidate find_fiscal_forecast_value returns from, with its coordinates.
locate(pdf) == IF ~pdf.opens THEN Raised ELSE search_tables(pdf, 0)

\* The pair (value, date_str) returned at map.py:240 and map.py:242.
returned_pair(match) ==
    IF match = None THEN <<None, None>>
    ELSE <<Some(match[1].value), match[1].date_str>>

find_fiscal_forecast_value(pdf) ==
    Let(locate(pdf), LAMBDA r : IF r.raised THEN Raised ELSE Return(returned_pair(r.ret)))

\* ------------------------------------------------- create_mapped_data

\* map.py:257-266: the dict {HEADER_1: forecast_date, HEADER_2: value}, or None.
mapped_record(pair) ==
    IF pair[1] = None \/ pair[2] = None THEN None
    ELSE Some([date |-> pair[2][1], value |-> pair[1][1]])

create_mapped_data(pdf) ==
    Let(find_fiscal_forecast_value(pdf), LAMBDA r :
        IF r.raised THEN Raised ELSE Return(mapped_record(r.ret)))

\* ---------------------------------------------- process_multiple_pdfs

\* map.py:12-13
HEADER_1 == <<"UYTCAB.DEMANDFORECAST.CHANGECURRBAL.JPN.B">>
HEADER_2 == <<"Supply and demand forecast: Change in current account balance">>

append_record_Deduplicated(records, record) ==
    IF \E i \in 1..Len(records) : records[i] = record THEN records ELSE Append(records, record)

\* all_data.append(data) (map.py:323)
append_record(records, record) == Append(records, record)

\* f"{date_value},{numeric_value}\n" (map.py:365)
csv_line(record) == record.date \o <<",">> \o str_int(record.value)

\* The lines save_custom_csv writes (map.py:356-365).
save_custom_csv(df) ==
    <<(<<",">> \o HEADER_1), (<<",">> \o HEADER_2)>> \o [i \in 1..Len(df) |-> csv_line(df[i])]

\* ---------------------------------------------------- specifications

NumChars == {"1", "0", "-", "+", "tri", " ", ",", "fw1"}

NumIdle == value_str = None /\ value = None /\ num_pc = "idle"
CellIdle ==
    /\ cell_month = 0 /\ cell_day = 0 /\ cell_text = <<>>
    /\ year = 0 /\ date_str = None /\ cell_pc = "idle"

NoDocument == Document(FALSE, None, <<>>)

CascIdle ==
    /\ table = <<>> /\ header_row_idx = 0 /\ col_idx = 0 /\ casc_pdf = NoDocument
    /\ forecast_date = Return(None) /\ casc_pc = "idle"

LocIdle ==
    /\ pdf_path = NoDocument /\ located = Return(None) /\ found = <<None, None>>
    /\ data = None /\ loc_pc = "idle"

BatchIdle ==
    /\ pdf_files = <<>> /\ output_csv = None /\ file_idx = 0 /\ all_data = <<>>
    /\ csv_file = None /\ batch_pc = "idle"

OrchIdle ==
    /\ downloads = None /\ test_pdf = None /\ map_pc = "idle" /\ orch_pc = "idle"
    /\ invoked = <<>> /\ step_a = "none" /\ returncode = 0 /\ exit_status = None

DocIdle == doc_file = None /\ pdf_date = Return(None) /\ doc_pc = "idle"

NumInit ==
    /\ value_str \in {None} \cup {Some(s) : s \in SeqsUpTo(NumChars, MaxLen)}
    /\ value = None
    /\ num_pc = "call"

CallCleanNumericValue ==
    /\ num_pc = "call"
    /\ value' = clean_numeric_value(value_str)
    /\ num_pc' = "returned"
    /\ UNCHANGED <<value_str, cellVars, cascVars, docVars, locVars, batchVars, orchVars>>

InitNumeric == NumInit /\ CellIdle /\ CascIdle /\ LocIdle /\ BatchIdle /\ OrchIdle /\ DocIdle
NextNumeric == CallCleanNumericValue
SpecNumeric == InitNumeric /\ [][NextNumeric]_vars

\* Reference years: a common year, a leap year, a century common year and a
\* century leap year.
Years == {2023, 2024, 1900, 2000}

\* The surroundings a cell date is written in: bare, zero-padded, after a label.
CellStyles == {"bare", "padded", "labelled"}

short_date_text(m, d, style) ==
    CASE style = "bare" -> str_nat(m) \o <<"M">> \o str_nat(d) \o <<"D">>
      [] style = "padded" -> zero_pad(str_nat(m), 2) \o <<"M">> \o zero_pad(str_nat(d), 2) \o <<"D">>
      [] style = "labelled" -> <<"x", " ">> \o str_nat(m) \o <<"M">> \o str_nat(d) \o <<"D">> \o <<"x">>

CellInit ==
    /\ year \in Years
    /\ cell_month \in 0..MaxMonth
    /\ cell_day \in 0..MaxDay
    /\ \E style \in CellStyles : cell_text = short_date_text(cell_month, cell_day, style)
    /\ date_str = None
    /\ cell_pc = "call"

CallExtractDateFromCell ==
    /\ cell_pc = "call"
    /\ date_str' = extract_date_from_cell(cell_text, year)
    /\ cell_pc' = "returned"
    /\ UNCHANGED <<cell_month, cell_day, cell_text, year, numVars, cascVars, docVars, locVars, batchVars, orchVars>>

InitCell == CellInit /\ NumIdle /\ CascIdle /\ LocIdle /\ BatchIdle /\ OrchIdle /\ DocIdle
NextCell == CallExtractDateFromCell
SpecCell == InitCell /\ [][NextCell]_vars

\* Page texts: a Japanese date of a leap year, a dot date of a common year,
\* no date at all, a date that is no calendar date, and no text.
TextLeapYear == Some(<<"x", "2", "0", "2", "4", "Y", "2", "M", "1", "D">>)
TextCommonYear == Some(<<"2", "0", "2", "3", ".", "0", "5", ".", "1", "6">>)
TextNoDate == Some(<<"x">>)
TextBadDate == Some(<<"2", "0", "2", "4", "/", "1", "3", "/", "1">>)
TextAbsent == None

\* A cell holding the short date of month m, day d.
date_cell(m, d) == Some(str_nat(m) \o <<"M">> \o str_nat(d) \o <<"D">>)

\* The one-column table of n rows holding a date in the rows of `dated` and
\* 30 February in the rows of `bad`.
cascade_table(n, dated, bad) ==
    [r \in 1..n |-> << IF r \in bad THEN date_cell(2, 30)
                       ELSE IF r \in dated THEN date_cell(1, r)
                       ELSE None >>]

CascInit ==
    /\ \E n \in 1..MaxCascadeRows :
        /\ \E present \in {S \in SUBSET (1..n) : Cardinality(S) <= MaxDateCells} :
             \E bad \in SUBSET present :
                 table = cascade_table(n, present \ bad, bad)
        /\ header_row_idx \in 0..(n - 1)
    /\ col_idx \in {0, 1}
    /\ casc_pdf \in {Document(TRUE, TextLeapYear, <<>>), Document(TRUE, TextNoDate, <<>>),
                     Document(TRUE, TextBadDate, <<>>)}
    /\ forecast_date = Return(None)
    /\ casc_pc = "call"

CallExtractForecastDate ==
    /\ casc_pc = "call"
    /\ forecast_date' = extract_forecast_date_universal(table, header_row_idx, col_idx, casc_pdf)
    /\ casc_pc' = "returned"
    /\ UNCHANGED <<table, header_row_idx, col_idx, casc_pdf, numVars, cellVars, locVars, docVars, batchVars, orchVars>>

InitCascade == CascInit /\ NumIdle /\ CellIdle /\ LocIdle /\ BatchIdle /\ OrchIdle /\ DocIdle
NextCascade == CallExtractForecastDate
SpecCascade == InitCascade /\ [][NextCascade]_vars

\* ---- the locator on one document

Subject == <<"zai", "sei">>
Metric == <<"jukyu", "yosou">>

\* Rows of two columns (one ragged) that tables are assembled from.
RowHeader == <<Some(<<"x">>), Some(<<"tosha">> \o Metric)>>
RowHeaderDated == <<Some(Metric \o <<"3", "M", "1", "D">>), None>>
RowHeaderTwice == <<Some(Metric), Some(Metric \o <<"4", "M", "2", "D">>)>>
RowData == <<Some(Subject), Some(<<"tri", "1", ",", "2">>)>>
RowDataBlank == <<Some(Subject), Some(<<" ">>)>>
RowDataFirstColumn == <<Some(<<"7">>), Some(Subject \o <<"x">>)>>
RowDataShort == <<Some(Subject)>>
RowDate == <<None, Some(<<"2", "M", "2", "9", "D">>)>>

RowPool == {RowHeader, RowHeaderDated, RowHeaderTwice, RowData, RowDataBlank,
            RowDataFirstColumn, RowDataShort, RowDate}

BlankRow == <<None, Some(<<>>)>>

Tables(n) == [1..n -> RowPool]

PageTexts == {TextLeapYear, TextCommonYear, TextNoDate, TextBadDate}

BlankRows == [r \in 1..(HeaderScanRows - 1) |-> BlankRow]

\* The first page of an opened document: one or two tables of MaxRows rows in
\* all, or one table of up to MaxPaddedRows rows below HeaderScanRows - 1 blank
\* rows.
LocInit ==
    /\ \/ \E text \in PageTexts :
              \/ \E n \in 1..MaxRows : \E t \in Tables(n) :
                     pdf_path = Document(TRUE, text, <<t>>)
              \/ \E n1 \in 1..(MaxRows - 1) : \E n2 \in 0..(MaxRows - n1) :
                     \E t1 \in Tables(n1) : \E t2 \in Tables(n2) :
                         pdf_path = Document(TRUE, text, <<t1, t2>>)
              \/ \E n \in 1..MaxPaddedRows : \E t \in Tables(n) :
                     pdf_path = Document(TRUE, text, <<BlankRows \o t>>)
       \/ pdf_path = Document(FALSE, None, <<>>)
       \/ pdf_path = Document(TRUE, TextAbsent, <<<<RowHeader, RowData>>>>)
    /\ located = Return(None)
    /\ found = <<None, None>>
    /\ data = None
    /\ loc_pc = "call"

\* create_mapped_data up to the return of find_fiscal_forecast_value (map.py:255).
FindFiscalForecastValue ==
    /\ loc_pc = "call"
    /\ \E r \in {locate(pdf_path)} :
          IF r.raised
          THEN /\ loc_pc' = "raised"
               /\ UNCHANGED <<located, found>>
          ELSE /\ loc_pc' = "found"
               /\ located' = r
               /\ found' = returned_pair(r.ret)
    /\ UNCHANGED <<pdf_path, data, numVars, cellVars, cascVars, docVars, batchVars, orchVars>>

\* The rest of create_mapped_data (map.py:257-266).
CreateMappedData ==
    /\ loc_pc = "found"
    /\ data' = mapped_record(found)
    /\ loc_pc' = "returned"
    /\ UNCHANGED <<pdf_path, located, found, numVars, cellVars, cascVars, docVars, batchVars, orchVars>>

InitLocator == LocInit /\ NumIdle /\ CellIdle /\ CascIdle /\ BatchIdle /\ OrchIdle /\ DocIdle
NextLocator == FindFiscalForecastValue \/ CreateMappedData
SpecLocator == InitLocator /\ [][NextLocator]_vars

\* ---- the locator on header rows with several metric cells

MetricDated == Metric \o <<"4", "M", "2", "D">>

HeaderCells == {None, Some(<<"x">>), Some(Metric), Some(MetricDated)}

\* Cells of the data row: a number, a blank, no cell text, a word, a number.
DataCells == {Some(<<"tri", "1", ",", "2">>), Some(<<" ">>), None, Some(<<"x">>), Some(<<"7">>)}

\* A header row of w cells, optionally a second header row whose cells all
\* hold a dated metric keyword, and the data row: its label and up to w - 1
\* cells.
HeaderRowInit ==
    /\ \E w \in 1..MaxWidth : \E header \in [1..w -> HeaderCells] :
          \E n \in 0..(w - 1) : \E cells \in [1..n -> DataCells] :
             \E second \in {<<>>, <<[c \in 1..w |-> Some(Metric \o <<"3", "M", "1", "D">>)]>>} :
                 pdf_path = Document(TRUE, TextLeapYear,
                                     <<(<<header>> \o second \o <<(<<Some(Subject)>> \o cells)>>)>>)
    /\ located = Return(None)
    /\ found = <<None, None>>
    /\ data = None
    /\ loc_pc = "call"

InitHeaderRow == HeaderRowInit /\ NumIdle /\ CellIdle /\ CascIdle /\ BatchIdle /\ OrchIdle /\ DocIdle
NextHeaderRow == FindFiscalForecastValue \/ CreateMappedData
SpecHeaderRow == InitHeaderRow /\ [][NextHeaderRow]_vars

\* ---- the document date of one file

\* Dates as they appear in the text of a page: the three formats, each also
\* with a day its month does not have, and a word.
Fragments ==
    { <<"2", "0", "2", "4", "Y", "2", "M", "1", "D">>,
      <<"2", "0", "2", "5", "Y", "1", "0", "M", "1", "D">>,
      <<"2", "0", "2", "4", "Y", "2", "M", "3", "0", "D">>,
      <<"2", "0", "2", "3", ".", "0", "5", ".", "1", "6">>,
      <<"2", "0", "2", "3", ".", "2", ".", "2", "9">>,
      <<"2", "0", "2", "2", "/", "3", "/", "4">>,
      <<"2", "0", "2", "4", "/", "1", "3", "/", "1">>,
      <<"x">> }

\* The fragments of fs separated by blanks.
RECURSIVE join(_)
join(fs) == IF fs = <<>> THEN <<>> ELSE IF Len(fs) = 1 THEN fs[1] ELSE fs[1] \o <<" ">> \o join(Tail(fs))

\* The texts of a second page, when the file has one.
LaterPages == {<<>>, <<TextLeapYear>>, <<TextAbsent>>}

\* A file pdfplumber cannot open, or the texts of the pages of one it opens.
DocInit ==
    /\ \/ doc_file = None
       \/ \E fs \in SeqsUpTo(Fragments, MaxFragments) : \E later \in LaterPages :
              doc_file = Some(<<Some(join(fs))>> \o later)
       \/ \E later \in LaterPages : doc_file = Some(<<TextAbsent>> \o later)
    /\ pdf_date = Return(None)
    /\ doc_pc = "call"

\* pdfplumber.open(pdf_path), pdf.pages[0] and first_page.extract_text() (map.py:31-33)
open_pdf(file) ==
    IF file = None THEN Document(FALSE, None, <<>>) ELSE Document(TRUE, file[1][1], <<>>)

CallExtractDateFromPdf ==
    /\ doc_pc = "call"
    /\ \E r \in {extract_date_from_pdf(open_pdf(doc_file))} :
          /\ pdf_date' = r
          /\ doc_pc' = IF r.raised THEN "raised" ELSE "returned"
    /\ UNCHANGED <<doc_file, numVars, cellVars, cascVars, locVars, batchVars, orchVars>>

InitDocDate == DocInit /\ NumIdle /\ CellIdle /\ CascIdle /\ LocIdle /\ BatchIdle /\ OrchIdle
NextDocDate == CallExtractDateFromPdf
SpecDocDate == InitDocDate /\ [][NextDocDate]_vars

\* ---- the batch over a folder

\* Documents of a folder: two that yield a record (the later date first), one
\* whose value has no date, one that does not open, one whose first-page date
\* is no calendar date and one whose first page has no text.
DocA == Document(TRUE, TextLeapYear, <<<<RowHeaderTwice, RowData>>>>)
DocB == Document(TRUE, TextLeapYear, <<<<RowHeaderDated, RowDataFirstColumn>>>>)
DocNotFound == Document(TRUE, TextLeapYear, <<<<RowHeader, RowData>>>>)
DocCorrupt == Document(FALSE, None, <<>>)
DocBadDate == Document(TRUE, TextBadDate, <<<<RowHeaderTwice, RowData>>>>)
DocNoText == Document(TRUE, TextAbsent, <<<<RowHeaderTwice, RowData>>>>)

DocPool == {DocA, DocB, DocNotFound, DocCorrupt, DocBadDate, DocNoText}

OutputCsv == Some(<<"output_mapped_data.csv">>)

BatchInit ==
    /\ pdf_files \in SeqsUpTo(DocPool, MaxFiles)
    /\ output_csv \in {None, OutputCsv}
    /\ file_idx = 0
    /\ all_data = <<>>
    /\ csv_file = None
    /\ batch_pc = "loop"

\* One turn of the loop of process_multiple_pdfs (map.py:318-326); an exception
\* of create_mapped_data leaves the function.
ProcessPdfFile ==
    /\ batch_pc = "loop"
    /\ file_idx < Len(pdf_files)
    /\ \E r \in {create_mapped_data(at(pdf_files, file_idx))} :
          IF r.raised
          THEN /\ batch_pc' = "raised"
               /\ UNCHANGED <<file_idx, all_data>>
          ELSE /\ all_data' = IF r.ret # None THEN append_record(all_data, r.ret[1]) ELSE all_data
               /\ file_idx' = file_idx + 1
               /\ UNCHANGED batch_pc
    /\ UNCHANGED <<pdf_files, output_csv, csv_file, numVars, cellVars, cascVars, docVars, locVars, orchVars>>

\* After the loop (map.py:331-347).
FinishBatch ==
    /\ batch_pc = "loop"
    /\ file_idx = Len(pdf_files)
    /\ csv_file' = IF all_data # <<>> /\ output_csv # None THEN Some(save_custom_csv(all_data))
                   ELSE csv_file
    /\ batch_pc' = "done"
    /\ UNCHANGED <<pdf_files, output_csv, file_idx, all_data, numVars, cellVars, cascVars, docVars,
                   locVars, orchVars>>

InitBatch == BatchInit /\ NumIdle /\ CellIdle /\ CascIdle /\ LocIdle /\ OrchIdle /\ DocIdle
NextBatch == ProcessPdfFile \/ FinishBatch
SpecBatch == InitBatch /\ [][NextBatch]_vars

\* ---- the pipeline: orchestrator.py runs main.py, then map.py

PipelineInit ==
    /\ downloads \in {None} \cup {Some(folder) : folder \in SeqsUpTo(DocPool, MaxDownloads)}
    /\ test_pdf \in {None} \cup
          (IF downloads = None THEN {} ELSE {Some(downloads[1][i]) : i \in 1..Len(downloads[1])})
    /\ map_pc = "idle"
    /\ orch_pc = "step 1"
    /\ invoked = <<>>
    /\ step_a = "none"
    /\ returncode = 0
    /\ exit_status = None

\* os.makedirs(download_dir) of setup_driver (main.py:20-33)
setup_driver(folder) == IF folder = None THEN Some(<<>>) ELSE folder

\* run_script("main.py", ...) starts the child process (orchestrator.py:60, 32-38).
RunMainPy ==
    /\ orch_pc = "step 1"
    /\ invoked' = Append(invoked, "main.py")
    /\ orch_pc' = "main.py"
    /\ UNCHANGED <<downloads, test_pdf, map_pc, step_a, returncode, exit_status,
                   numVars, cellVars, cascVars, docVars, locVars, batchVars>>

\* main.py's main runs to its end and the report arrives (main.py:171-202).
MainPyDownloads ==
    /\ orch_pc = "main.py"
    /\ \E d \in DocPool : downloads' = Some(Append(setup_driver(downloads)[1], d))
    /\ step_a' = "downloaded"
    /\ returncode' = 0
    /\ orch_pc' = "step 1 returned"
    /\ UNCHANGED <<test_pdf, map_pc, invoked, exit_status,
                   numVars, cellVars, cascVars, docVars, locVars, batchVars>>

\* wait_for_download returns None; main prints and ends normally (main.py:165-166, 204-207).
MainPyTimesOut ==
    /\ orch_pc = "main.py"
    /\ downloads' = setup_driver(downloads)
    /\ step_a' = "timeout"
    /\ returncode' = 0
    /\ orch_pc' = "step 1 returned"
    /\ UNCHANGED <<test_pdf, map_pc, invoked, exit_status,
                   numVars, cellVars, cascVars, docVars, locVars, batchVars>>

\* An exception of the driver, the navigation or the page search is caught and
\* printed; main ends normally (main.py:209-212).
MainPyCatchesError ==
    /\ orch_pc = "main.py"
    /\ downloads' = setup_driver(downloads)
    /\ step_a' = "error"
    /\ returncode' = 0
    /\ orch_pc' = "step 1 returned"
    /\ UNCHANGED <<test_pdf, map_pc, invoked, exit_status,
                   numVars, cellVars, cascVars, docVars, locVars, batchVars>>

\* The process ends with a traceback: a failing import, or driver.quit()
\* raising in the finally block (main.py:1-10, 214-219).
MainPyCrashes ==
    /\ orch_pc = "main.py"
    /\ step_a' = "crashed"
    /\ returncode' = 1
    /\ orch_pc' = "step 1 returned"
    /\ UNCHANGED <<downloads, test_pdf, map_pc, invoked, exit_status,
                   numVars, cellVars, cascVars, docVars, locVars, batchVars>>

\* run_script's result: CalledProcessError on a non-zero exit (orchestrator.py:32-49).
run_script(code) == code = 0

PipelineFailsAtStep1 ==
    /\ orch_pc = "step 1 returned"
    /\ ~run_script(returncode)
    /\ exit_status' = Some(1)
    /\ orch_pc' = "exited"
    /\ UNCHANGED <<downloads, test_pdf, map_pc, invoked, step_a, returncode,
                   numVars, cellVars, cascVars, docVars, locVars, batchVars>>

RunMapPy ==
    /\ orch_pc = "step 1 returned"
    /\ run_script(returncode)
    /\ invoked' = Append(invoked, "map.py")
    /\ orch_pc' = "map.py"
    /\ map_pc' = "single"
    /\ UNCHANGED <<downloads, test_pdf, step_a, returncode, exit_status,
                   numVars, cellVars, cascVars, docVars, locVars, batchVars>>

\* map.py's main, the single file (map.py:378-389).
MapTestSinglePdf ==
    /\ map_pc = "single"
    /\ \E r \in {IF test_pdf = None THEN Return(None) ELSE create_mapped_data(test_pdf[1])} :
          map_pc' = IF r.raised THEN "raised" ELSE "folder"
    /\ UNCHANGED <<downloads, test_pdf, orch_pc, invoked, step_a, returncode, exit_status,
                   numVars, cellVars, cascVars, docVars, locVars, batchVars>>

\* map.py's main, the folder (map.py:392-400) up to the loop of
\* process_multiple_pdfs (map.py:313-316).
MapStartBatch ==
    /\ map_pc = "folder"
    /\ IF downloads = None
       THEN /\ map_pc' = "returned"
            /\ UNCHANGED batchVars
       ELSE /\ map_pc' = "batch"
            /\ pdf_files' = downloads[1]
            /\ output_csv' = OutputCsv
            /\ file_idx' = 0
            /\ all_data' = <<>>
            /\ batch_pc' = "loop"
            /\ UNCHANGED csv_file
    /\ UNCHANGED <<downloads, test_pdf, orch_pc, invoked, step_a, returncode, exit_status,
                   numVars, cellVars, cascVars, docVars, locVars>>

\* The child process of map.py ends (map.py:402-407); an uncaught exception
\* ends it with status 1.
MapPyExits ==
    /\ \/ map_pc \in {"raised", "returned"}
       \/ map_pc = "batch" /\ batch_pc \in {"done", "raised"}
    /\ returncode' = IF map_pc = "raised" \/ (map_pc = "batch" /\ batch_pc = "raised") THEN 1 ELSE 0
    /\ map_pc' = "exited"
    /\ orch_pc' = "step 2 returned"
    /\ UNCHANGED <<downloads, test_pdf, invoked, step_a, exit_status,
                   numVars, cellVars, cascVars, docVars, locVars, batchVars>>

PipelineFailsAtStep2 ==
    /\ orch_pc = "step 2 returned"
    /\ ~run_script(returncode)
    /\ exit_status' = Some(1)
    /\ orch_pc' = "exited"
    /\ UNCHANGED <<downloads, test_pdf, map_pc, invoked, step_a, returncode,
                   numVars, cellVars, cascVars, docVars, locVars, batchVars>>

PipelineCompletes ==
    /\ orch_pc = "step 2 returned"
    /\ run_script(returncode)
    /\ exit_status' = Some(0)
    /\ orch_pc' = "exited"
    /\ UNCHANGED <<downloads, test_pdf, map_pc, invoked, step_a, returncode,
                   numVars, cellVars, cascVars, docVars, locVars, batchVars>>

Init == PipelineInit /\ NumIdle /\ CellIdle /\ CascIdle /\ LocIdle /\ BatchIdle /\ DocIdle

Next ==
    \/ RunMainPy
    \/ MainPyDownloads
    \/ MainPyTimesOut
    \/ MainPyCatchesError
    \/ MainPyCrashes
    \/ PipelineFailsAtStep1
    \/ RunMapPy
    \/ MapTestSinglePdf
    \/ MapStartBatch
    \/ ProcessPdfFile
    \/ FinishBatch
    \/ MapPyExits
    \/ PipelineFailsAtStep2
    \/ PipelineCompletes

Spec == Init /\ [][Next]_vars

\* ================================================================ claims

\* ---- definitions shared by C1, C2, C3 and C9

Called == loc_pc \in {"found", "returned"}

\* The text holds the word as a run of consecutive characters.
ContainsWord(text, word) ==
    \E i \in 0..(Len(text) - Len(word)) : \A k \in 1..Len(word) : text[i + k] = word[k]

CellHasSubject(cell) == cell # None /\ ContainsWord(cell[1], <<"zai", "sei">>)
CellHasMetric(cell) == cell # None /\ ContainsWord(cell[1], <<"jukyu", "yosou">>)

SubjectRows(tbl) == {r \in 0..(Len(tbl) - 1) : \E c \in DOMAIN tbl[r + 1] : CellHasSubject(tbl[r + 1][c])}
MetricRows(tbl) == {r \in 0..(Len(tbl) - 1) : \E c \in DOMAIN tbl[r + 1] : CellHasMetric(tbl[r + 1][c])}

\* The cell of tbl at row r and column c (0-based), None when there is none.
CellAt(tbl, r, c) ==
    IF r + 1 \in DOMAIN tbl /\ c + 1 \in DOMAIN tbl[r + 1] THEN tbl[r + 1][c + 1] ELSE None

DataRow(tbl) == CHOOSE r \in SubjectRows(tbl) : \A q \in SubjectRows(tbl) : r <= q

\* The candidates <<table, header row, column>> of one table: a metric-keyword
\* cell among the first 40 rows, above the table's data row.
TableCandidates(t, tbl) ==
    IF SubjectRows(tbl) = {} THEN {}
    ELSE LET above == {h \in MetricRows(tbl) : h < DataRow(tbl) /\ h < HeaderScanRows}
         IN UNION {{<<t, h, c>> : c \in {k \in 0..(Len(tbl[h + 1]) - 1) :
                                           CellHasMetric(CellAt(tbl, h, k))}} : h \in above}

Candidates(pdf) == UNION {TableCandidates(t - 1, pdf.tables[t]) : t \in DOMAIN pdf.tables}

CandidateValue(pdf, cand) ==
    LET tbl == pdf.tables[cand[1] + 1]
    IN clean_numeric_value(CellAt(tbl, DataRow(tbl), cand[3]))

CandidateDate(pdf, cand) ==
    extract_forecast_date_universal(pdf.tables[cand[1] + 1], cand[2], cand[3], pdf)

Resolves(pdf, cand) ==
    /\ CandidateValue(pdf, cand) # None
    /\ LET d == CandidateDate(pdf, cand)
       IN ~d.raised /\ d.ret # None

\* Scan order: by table, then header row, then column.
Before(a, b) ==
    \/ a[1] < b[1]
    \/ a[1] = b[1] /\ a[2] < b[2]
    \/ a[1] = b[1] /\ a[2] = b[2] /\ a[3] <= b[3]

\* ---- C1

\* C1: find_fiscal_forecast_value returns a value and a date together or
\* neither, and create_mapped_data returns a record holding exactly that date
\* and value or no record: a value without a date is never emitted.
C1_BothOrNeither ==
    /\ Called => /\ (found[1] = None <=> found[2] = None)
                 /\ found[2] # None => Len(found[2][1]) = 10
                 /\ found[1] # None => found[1][1] \in Int
    /\ loc_pc = "returned" =>
          IF found[1] # None /\ found[2] # None
          THEN data = Some([date |-> found[2][1], value |-> found[1][1]])
          ELSE data = None

\* A value whose only date cell is no date of the document's year was discarded.
C1_Witness ==
    /\ loc_pc = "returned"
    /\ pdf_path = Document(TRUE, TextCommonYear, <<<<RowHeader, RowData, RowDate>>>>)
    /\ data = None

\* ---- C2

\* C2: the match returned lies in a table whose first subject-keyword row is
\* the data row, its header row is above the data row and holds a metric
\* keyword in the matched column, and the value is the normalized text of the
\* data row's cell in that column; a page whose tables hold no subject-keyword
\* row yields no result.
C2_Intersection ==
    Called =>
        /\ located.ret # None =>
              LET m == located.ret[1]
                  tbl == pdf_path.tables[m.table_idx + 1]
              IN /\ SubjectRows(tbl) # {}
                 /\ m.target_row_idx = DataRow(tbl)
                 /\ m.header_idx < m.target_row_idx
                 /\ CellHasMetric(CellAt(tbl, m.header_idx, m.col_idx))
                 /\ found[1] = clean_numeric_value(CellAt(tbl, m.target_row_idx, m.col_idx))
                 /\ Cardinality(MetricRows(tbl)) = 1 => m.header_idx \in MetricRows(tbl)
        /\ (\A t \in DOMAIN pdf_path.tables : SubjectRows(pdf_path.tables[t]) = {}) =>
              found = <<None, None>>

\* One header row, two subject rows and an unrelated row: the first subject
\* row and the header's dated column were used.
C2_Witness ==
    /\ Called
    /\ pdf_path = Document(TRUE, TextLeapYear, <<<<RowDate, RowHeaderTwice, RowData, RowDataFirstColumn>>>>)
    /\ located.ret # None
    /\ located.ret[1].header_idx = 1 /\ located.ret[1].target_row_idx = 2
    /\ located.ret[1].col_idx = 1
    /\ found = <<Some(-12), Some(<<"2", "0", "2", "4", "-", "0", "4", "-", "0", "2">>)>>

\* ---- C3

ValueLocated(pdf) == \E cand \in Candidates(pdf) : CandidateValue(pdf, cand) # None

\* No cascade step succeeds for any candidate with a value.
NoCascadeSuccess(pdf) ==
    \A cand \in Candidates(pdf) :
        CandidateValue(pdf, cand) # None => CandidateDate(pdf, cand) = Return(None)

DocumentDated(pdf) ==
    ~extract_date_from_pdf(pdf).raised /\ extract_date_from_pdf(pdf).ret # None

\* C9 as stated: when a value is located but no cascade step succeeds for any
\* candidate, the record carries the document's publication date.
C9_FallbackToDocumentDate ==
    (loc_pc = "returned" /\ DocumentDated(pdf_path) /\ ValueLocated(pdf_path)
         /\ NoCascadeSuccess(pdf_path)) =>
        /\ data # None
        /\ data[1].date = strftime_ymd(extract_date_from_pdf(pdf_path).ret[1])

\* C9 amended: when a value is located but no cascade step succeeds for any
\* candidate, no fallback to the document's publication date is applied:
\* find_fiscal_forecast_value returns (None, None) and create_mapped_data
\* returns no record; every date emitted is the cascade's date of the matched
\* candidate.
C9_NoFallback ==
    /\ (loc_pc = "returned" /\ ValueLocated(pdf_path) /\ NoCascadeSuccess(pdf_path)) =>
          found = <<None, None>> /\ data = None
    /\ (loc_pc = "returned" /\ data # None) =>
          /\ located.ret # None
          /\ Some(data[1].date) =
                 extract_forecast_date_universal(pdf_path.tables[located.ret[1].table_idx + 1],
                     located.ret[1].header_idx, located.ret[1].col_idx, pdf_path).ret

\* A dated document with a located value and no cell date gave no record.
C9_Witness ==
    /\ loc_pc = "returned"
    /\ DocumentDated(pdf_path)
    /\ pdf_path.tables = <<<<RowHeader, RowData>>>>
    /\ ValueLocated(pdf_path) /\ NoCascadeSuccess(pdf_path)
    /\ data = None

\* ---- C4

\* The rows the claim lists, in its order, for header row h.
SearchOrder(h) == <<h, h + 1, h - 1, h + 2, h - 2, h + 3, h - 5, h - 4, h - 3, h - 2, h - 1>>

\* The date the cell at (row r, column c) of tbl parses to in year y, if any.
ParsedAt(tbl, r, c, y) ==
    IF r \in 0..(Len(tbl) - 1) /\ c + 1 \in DOMAIN tbl[r + 1] /\ tbl[r + 1][c + 1] # None
    THEN extract_date_from_cell(tbl[r + 1][c + 1][1], y)
    ELSE None

FirstParsed(tbl, h, c, y) ==
    LET order == SearchOrder(h)
        hits == {k \in 1..Len(order) : ParsedAt(tbl, order[k], c, y) # None}
    IN IF hits = {} THEN None
       ELSE ParsedAt(tbl, order[CHOOSE k \in hits : \A j \in hits : k <= j], c, y)

RECURSIVE DigitsValue(_, _)
DigitsValue(s, acc) ==
    IF s = <<>> THEN acc
    ELSE DigitsValue(Tail(s), IF IsDigit(s[1]) THEN 10 * acc + DigitVal(s[1]) ELSE acc)

HasDigit(s) == \E i \in 1..Len(s) : IsDigit(s[i])

\* The first character that is not whitespace is a minus sign.
MinusAfterWhitespace(s) ==
    \E i \in 1..Len(s) : s[i] = "-" /\ \A j \in 1..(i - 1) : IsSpace(s[j])

ExpectedNumber(text, negative) ==
    LET magnitude == DigitsValue(text, 0)
    IN IF negative /\ magnitude > 0 THEN -magnitude ELSE magnitude

\* C5 as stated: clean_numeric_value returns absent for an absent, empty or
\* digit-free text, and otherwise the value of the digits, negated exactly
\* when the text contains the triangle glyph or starts with a minus sign and
\* the magnitude is positive.
C5_NegativeIffTextStartsWithMinus ==
    num_pc = "returned" =>
        IF value_str = None \/ ~HasDigit(value_str[1]) THEN value = None
        ELSE LET text == value_str[1]
             IN value = Some(ExpectedNumber(text, has_char(text, "tri") \/ text[1] = "-"))

\* C5 amended: clean_numeric_value never fails; it returns absent for an
\* absent, empty, whitespace-only or digit-free text, and otherwise the value
\* of the digits, negated exactly when the text contains the triangle glyph
\* or its first non-whitespace character is a minus sign, and the magnitude
\* is positive; zero is returned as 0.
C5_CleanNumericValue ==
    num_pc = "returned" =>
        IF value_str = None \/ ~HasDigit(value_str[1]) THEN value = None
        ELSE LET text == value_str[1]
             IN value = Some(ExpectedNumber(text,
                                 has_char(text, "tri") \/ MinusAfterWhitespace(text)))

\* A minus sign after leading whitespace has negated the value.
C5_Witness ==
    /\ num_pc = "returned"
    /\ value_str = Some(<<" ", "-", "1", "0">>)
    /\ value = Some(-10)

\* ---- C6

MonthsOf31 == {1, 3, 5, 7, 8, 10, 12}
MonthsOf30 == {4, 6, 9, 11}

IsCalendarDate(y, m, d) ==
    /\ d >= 1
    /\ \/ m \in MonthsOf31 /\ d <= 31
       \/ m \in MonthsOf30 /\ d <= 30
       \/ m = 2 /\ d <= 28
       \/ m = 2 /\ d = 29 /\ y % 4 = 0 /\ (y % 100 # 0 \/ y % 400 = 0)

\* An ISO date text YYYY-MM-DD read back as numbers.
IsIsoDateOf(text, y, m, d) ==
    /\ Len(text) = 10
    /\ text[5] = "-" /\ text[8] = "-"
    /\ \A i \in {1, 2, 3, 4, 6, 7, 9, 10} : text[i] \in AsciiDigits
    /\ DigitsValue(SubSeq(text, 1, 4), 0) = y
    /\ DigitsValue(SubSeq(text, 6, 7), 0) = m
    /\ DigitsValue(SubSeq(text, 9, 10), 0) = d

\* C6: for every reference year and (month, day), extract_date_from_cell maps
\* the text <month>M<day>D to the ISO date of exactly that year, month and day
\* when it is a calendar date of that year, and to absent otherwise.
C6_CellDateRoundTrip ==
    cell_pc = "returned" =>
        IF IsCalendarDate(year, cell_month, cell_day)
        THEN date_str # None /\ IsIsoDateOf(date_str[1], year, cell_month, cell_day)
        ELSE date_str = None

\* 29 February of a leap year resolved, and 29 February of a common year and
\* 31 April rejected.
C6_Witness ==
    /\ cell_pc = "returned"
    /\ \/ year = 2024 /\ cell_month = 2 /\ cell_day = 29
            /\ date_str = Some(<<"2", "0", "2", "4", "-", "0", "2", "-", "2", "9">>)
       \/ year = 2023 /\ cell_month = 2 /\ cell_day = 29 /\ date_str = None
       \/ cell_month = 4 /\ cell_day = 31 /\ date_str = None

\* ---- C7

\* C7: in batch mode every per-document failure is a skip: the batch never
\* ends before every document of the folder has been processed.
C7_FailureIsASkip ==
    batch_pc \in {"done", "raised"} => batch_pc = "done" /\ file_idx = Len(pdf_files)

\* ---- C8

\* The records of the documents that yield one, in folder order.
RECURSIVE RecordsOf(_)
RecordsOf(files) ==
    IF files = <<>> THEN <<>>
    ELSE LET rest == RecordsOf(SubSeq(files, 1, Len(files) - 1))
             r == create_mapped_data(files[Len(files)])
         IN IF ~r.raised /\ r.ret # None THEN rest \o <<r.ret[1]>> ELSE rest

IsCsvOf(lines, records) ==
    /\ Len(lines) = 2 + Len(records)
    /\ lines[1] = <<",", "UYTCAB.DEMANDFORECAST.CHANGECURRBAL.JPN.B">>
    /\ lines[2] = <<",", "Supply and demand forecast: Change in current account balance">>
    /\ \A i \in 1..Len(records) :
          /\ SubSeq(lines[i + 2], 1, 10) = records[i].date
          /\ lines[i + 2][11] = ","
          /\ LET digits == SubSeq(lines[i + 2], 12, Len(lines[i + 2]))
             IN IF records[i].value < 0
                THEN digits[1] = "-" /\ DigitsValue(Tail(digits), 0) = -records[i].value
                ELSE digits[1] # "-" /\ DigitsValue(digits, 0) = records[i].value

\* C8 as stated: a finished batch with an output path has written a file of
\* 2 label lines plus one line per successful document.
C8_FileHasTwoPlusSuccessesLines ==
    (batch_pc = "done" /\ output_csv # None) =>
        csv_file # None /\ Len(csv_file[1]) = 2 + Len(all_data)

\* C8 amended: the result set holds one record per successfully processed
\* document, in processing order, never deduplicated or sorted; the file is
\* written only when the batch has finished with at least one record (and an
\* output path), and then holds the two label lines and one line per record in
\* the same order; with no successful document no file is written.
C8_ResultSetAndFile ==
    /\ all_data = RecordsOf(SubSeq(pdf_files, 1, file_idx))
    /\ csv_file # None =>
          /\ batch_pc = "done" /\ all_data # <<>> /\ output_csv # None
          /\ IsCsvOf(csv_file[1], all_data)
    /\ (batch_pc = "done" /\ all_data # <<>> /\ output_csv # None) => csv_file # None

\* One success and one not-found: a result set of length 1 and a file of 3 lines.
C8_Witness ==
    /\ batch_pc = "done"
    /\ pdf_files = <<DocA, DocNotFound>>
    /\ Len(all_data) = 1
    /\ csv_file # None /\ Len(csv_file[1]) = 3

\* ---- C10

\* C10: step B is invoked only after step A has succeeded; when step A fails
\* the pipeline ends with a non-zero status without invoking step B; the
\* pipeline ends with status 0 only after both steps succeeded.
C10_StepBOnlyAfterStepA ==
    /\ Len(invoked) = 2 => invoked = <<"main.py", "map.py">> /\ step_a = "downloaded"
    /\ (orch_pc = "exited" /\ step_a # "downloaded") =>
          exit_status = Some(1) /\ invoked = <<"main.py">>
    /\ exit_status = Some(0) => step_a = "downloaded" /\ returncode = 0

\* ---- C11

\* The columns of the header row h of tbl that hold a metric keyword.
MetricColumns(tbl, h) == {c \in 0..(Len(tbl[h + 1]) - 1) : CellHasMetric(CellAt(tbl, h, c))}

\* C11 as stated: the column of the match is the leftmost metric-keyword cell
\* of its header row; a later metric-keyword cell of a header row is never used.
C11_LeftmostMetricCellOnly ==
    (Called /\ located.ret # None) =>
        LET m == located.ret[1]
            tbl == pdf_path.tables[m.table_idx + 1]
        IN \A c \in MetricColumns(tbl, m.header_idx) : m.col_idx <= c

\* C11 amended: within a header candidate row the locator tries every
\* metric-keyword cell from left to right: the match's column is the leftmost
\* metric-keyword cell of its header row for which value and date both
\* resolve, the locator has moved on to that header row only because no
\* metric-keyword cell of an earlier header row of the table resolves, and
\* there is no result only when no metric-keyword cell of any header row does.
C11_EveryMetricCellLeftToRight ==
    Called =>
        IF located.ret = None
        THEN \A cand \in Candidates(pdf_path) : ~Resolves(pdf_path, cand)
        ELSE LET m == located.ret[1]
                 tbl == pdf_path.tables[m.table_idx + 1]
             IN /\ m.col_idx \in MetricColumns(tbl, m.header_idx)
                /\ Resolves(pdf_path, <<m.table_idx, m.header_idx, m.col_idx>>)
                /\ \A c \in MetricColumns(tbl, m.header_idx) :
                      c < m.col_idx => ~Resolves(pdf_path, <<m.table_idx, m.header_idx, c>>)
                /\ \A h \in 0..(m.header_idx - 1) : \A c \in MetricColumns(tbl, h) :
                      ~Resolves(pdf_path, <<m.table_idx, h, c>>)

\* The leftmost metric-keyword cell of header row 0 meets the label of the data
\* row; the next metric-keyword cell of the same header row was used although
\* a second header row follows.
C11_Witness ==
    /\ Called
    /\ pdf_path.tables[1][1] = <<Some(Metric), Some(<<"x">>), Some(MetricDated)>>
    /\ Len(pdf_path.tables[1]) = 3
    /\ pdf_path.tables[1][3] = <<Some(Subject), Some(<<"7">>), Some(<<"tri", "1", ",", "2">>)>>
    /\ MetricColumns(pdf_path.tables[1], 0) = {0, 2}
    /\ CandidateValue(pdf_path, <<0, 0, 0>>) = None
    /\ located.ret # None
    /\ located.ret[1].header_idx = 0 /\ located.ret[1].col_idx = 2
    /\ found = <<Some(-12), Some(<<"2", "0", "2", "4", "-", "0", "4", "-", "0", "2">>)>>

\* ---- C12

\* The value of the ASCII digits of s, read in order as one decimal number.
RECURSIVE AsciiValue(_)
AsciiValue(s) ==
    IF s = <<>> THEN 0
    ELSE LET rest == AsciiValue(SubSeq(s, 1, Len(s) - 1))
             c == s[Len(s)]
         IN IF c \in AsciiDigits THEN 10 * rest + (CHOOSE n \in 0..9 : DigitChar(n) = c)
            ELSE rest

\* The same, the full-width digit one counting as the digit 1.
RECURSIVE DecimalValue(_)
DecimalValue(s) ==
    IF s = <<>> THEN 0
    ELSE LET rest == DecimalValue(SubSeq(s, 1, Len(s) - 1))
             c == s[Len(s)]
         IN IF c \in AsciiDigits THEN 10 * rest + (CHOOSE n \in 0..9 : DigitChar(n) = c)
            ELSE IF c = "fw1" THEN 10 * rest + 1
            ELSE rest

Abs(n) == IF n < 0 THEN -n ELSE n

\* C12 as stated: only ASCII digits contribute: a text without an ASCII digit
\* yields absent, and otherwise the magnitude is the value of the ASCII digits.
C12_OnlyAsciiDigitsCount ==
    (num_pc = "returned" /\ value_str # None) =>
        LET text == value_str[1]
        IN IF \A i \in 1..Len(text) : text[i] \notin AsciiDigits
           THEN value = None
           ELSE value # None /\ Abs(value[1]) = AsciiValue(text)

\* C12 amended: clean_numeric_value strips every character that is not a
\* decimal digit, and a decimal digit need not be ASCII: a full-width digit is
\* kept and parsed with its digit value, so a text whose only digit is
\* full-width yields a number, and a full-width digit among ASCII digits takes
\* its place in the magnitude; a text without any decimal digit yields absent.
C12_EveryDecimalDigitCounts ==
    (num_pc = "returned" /\ value_str # None) =>
        LET text == value_str[1]
        IN IF \A i \in 1..Len(text) : text[i] \notin AsciiDigits \cup {"fw1"}
           THEN value = None
           ELSE value # None /\ Abs(value[1]) = DecimalValue(text)

\* A full-width digit before a separator and an ASCII digit: 10, not 0.
C12_Witness ==
    /\ num_pc = "returned"
    /\ value_str = Some(<<"fw1", ",", "0">>)
    /\ value = Some(10)

\* ---- C13

\* The character of text at position i, "" beyond its end.
Ch(text, i) == IF i \in DOMAIN text THEN text[i] ELSE ""

\* n decimal digits at position i.
IsNumber(text, i, n) == \A j \in i..(i + n - 1) : Ch(text, j) \in AsciiDigits \cup {"fw1"}

\* The separators of the patterns by priority: YYYY年M月D日, YYYY.M.D, YYYY/M/D.
PatternMarks == << <<"Y", "M", "D">>, <<".", ".", "">>, <<"/", "/", "">> >>

\* Pattern k matches at position i with a month of ml and a day of dl digits;
\* a day that nothing closes takes a second digit when there is one.
FullDateAt(text, i, k, ml, dl) ==
    /\ IsNumber(text, i, 4)
    /\ Ch(text, i + 4) = PatternMarks[k][1]
    /\ IsNumber(text, i + 5, ml)
    /\ Ch(text, i + 5 + ml) = PatternMarks[k][2]
    /\ IsNumber(text, i + 6 + ml, dl)
    /\ IF PatternMarks[k][3] # "" THEN Ch(text, i + 6 + ml + dl) = PatternMarks[k][3]
       ELSE dl = 2 \/ ~IsNumber(text, i + 6 + ml, 2)

MatchStarts(text, k) ==
    {i \in 1..Len(text) : \E ml \in {1, 2} : \E dl \in {1, 2} : FullDateAt(text, i, k, ml, dl)}

\* Year, month and day of the match of pattern k at position i.
MatchDate(text, i, k) ==
    LET len == CHOOSE l \in {1, 2} \X {1, 2} : FullDateAt(text, i, k, l[1], l[2])
    IN [year |-> DecimalValue(SubSeq(text, i, i + 3)),
        month |-> DecimalValue(SubSeq(text, i + 5, i + 4 + len[1])),
        day |-> DecimalValue(SubSeq(text, i + 6 + len[1], i + 5 + len[1] + len[2]))]

\* The leftmost match of the first pattern, in priority order, that matches in text.
DecidingMatch(text) ==
    LET k == CHOOSE p \in 1..3 : MatchStarts(text, p) # {} /\ \A q \in 1..(p - 1) : MatchStarts(text, q) = {}
        i == CHOOSE a \in MatchStarts(text, k) : \A b \in MatchStarts(text, k) : a <= b
    IN MatchDate(text, i, k)

\* C13: extract_date_from_pdf reads the text of the first page only and
\* decides by pattern priority, not by position: the leftmost match of the
\* first of YYYY年M月D日, YYYY.M.D, YYYY/M/D that matches anywhere in that text
\* is the one used (its calendar date is returned; the call raises when it is
\* no calendar date), and absent is returned when none of the three matches.
C13_PatternPriority ==
    (doc_pc \in {"returned", "raised"} /\ doc_file # None /\ doc_file[1][1] # None) =>
        LET text == doc_file[1][1][1]
        IN IF \A k \in 1..3 : MatchStarts(text, k) = {}
           THEN doc_pc = "returned" /\ pdf_date = Return(None)
           ELSE LET g == DecidingMatch(text)
                IN IF IsCalendarDate(g.year, g.month, g.day)
                   THEN doc_pc = "returned" /\ pdf_date = Return(Some(g))
                   ELSE doc_pc = "raised"

\* A dot date stands before a 年月日 date on the first page and another 年月日
\* date on the second page: the first page's 年月日 date was returned.
C13_Witness ==
    /\ doc_pc = "returned"
    /\ doc_file = Some(<<Some(<<"2", "0", "2", "3", ".", "0", "5", ".", "1", "6", " ",
                                "2", "0", "2", "5", "Y", "1", "0", "M", "1", "D">>),
                         TextLeapYear>>)
    /\ pdf_date = Return(Some([year |-> 2025, month |-> 10, day |-> 1]))

====
